---------------------------- MODULE Spec2Model ----------------------------
(***************************************************************************)
(* Model of the whisper-transcriber backend: the job registry and the      *)
(* POST/GET /transcribe handlers of backend/src/routes.ts, and the chunked *)
(* pipeline WhisperService.transcribe of backend/src/whisper.service.ts    *)
(* (lines 110-285, the revision routes.ts calls with a progress callback). *)
(*                                                                         *)
(* Node runs every callback to completion, together with the promise       *)
(* continuations (microtasks) it triggers, before the next I/O event is    *)
(* delivered.  One action of this model is therefore one such event: the   *)
(* arrival of a request, the exit of a child process, the completion of a  *)
(* file-system call, followed by all the code that runs until the next     *)
(* await of every promise chain it wakes.                                  *)
(***************************************************************************)
EXTENDS Integers, Sequences, FiniteSets, TLC

\* ------------------------------------------------------------ bounds
\* Most chunks and most CPU cores of a worker pool taken alone.
MaxPoolChunks == 8
MaxCores == 16

\* Most events one child process delivers.
MaxEvents == 3

\* Most status queries of one polling loop.
MaxPolls == 3

\* Largest number of chunk files one segmentation produces.
MaxChunks == 3

\* The same for the runs checked for liveness.
MaxChunksLive == 2

\* The same for the runs that vary the requests.
MaxChunksApi == 1

\* The same for the runs with two jobs.
MaxChunksTwo == 1

\* Identifiers uuidv4() can hand out.
AllIds == {1, 2}

\* CPU counts os.cpus().length is drawn from.
CpuChoices == {2, 8}

\* Contents the recognizer writes to part_<idx>.txt.
Texts == { <<" ", "a", "\r", "\n">>, <<"\t", "b", "\n">> }

\* How a child process ends: exit code 0, exit code 1, killed by a signal
\* (close with code null), or not spawned at all (ENOENT).
Outcomes == {"exit0", "exit1", "killed", "enoent"}

\* How a child process that was spawned ends.
Exits == Outcomes \ {"enoent"}

\* ------------------------------------------------------------ values
Terminal == {"completed", "failed"}

\* stage strings; "Transcrevendo (k/n)" carries its two numbers
Stage(name) == <<name, 0, 0>>
StageChunks(k, n) == <<"Transcrevendo", k, n>>

\* Error messages: `${errPrefix}: ${err.message}` (cause "spawn"),
\* `${errPrefix}: codigo ${code}. ${stderr}` (cause "exit"), a plain message
\* (cause "none"), or the message of a failed fs call (cause "fs").
\* block is index + 1 of "Erro no bloco <n>", 0 for the other prefixes.
Msg(prefix, block, cause, code) ==
    [prefix |-> prefix, block |-> block, cause |-> cause, code |-> code]

Min(a, b) == IF a < b THEN a ELSE b
Max(a, b) == IF a > b THEN a ELSE b

\* Math.round(x) for x = num/den >= 0: floor(x + 1/2)
Round(num, den) == (2 * num + den) \div (2 * den)

\* obj[k] = v on a JavaScript object (the field is created when absent)
SetField(rec, k, v) ==
    [x \in DOMAIN rec \cup {k} |-> IF x = k THEN v ELSE rec[x]]

\* ------------------------------------------------------------ strings
\* The characters String.prototype.trim strips: WhiteSpace and
\* LineTerminator of ECMAScript.  A character that cannot be written in a
\* string here stands as its code point.
WhiteSpace ==
    { "\t", "\n", "U+000B", "\f", "\r", " ", "U+00A0", "U+1680", "U+2000",
      "U+2001", "U+2002", "U+2003", "U+2004", "U+2005", "U+2006", "U+2007",
      "U+2008", "U+2009", "U+200A", "U+2028", "U+2029", "U+202F", "U+205F",
      "U+3000", "U+FEFF" }

IsSpace(c) == c \in WhiteSpace

RECURSIVE TrimStart(_)
TrimStart(s) ==
    IF s # <<>> /\ IsSpace(Head(s)) THEN TrimStart(Tail(s)) ELSE s

RECURSIVE TrimEnd(_)
TrimEnd(s) ==
    IF s # <<>> /\ IsSpace(s[Len(s)]) THEN TrimEnd(SubSeq(s, 1, Len(s) - 1))
    ELSE s

\* String.prototype.trim
Trim(s) == TrimEnd(TrimStart(s))

\* Array.prototype.join("\n")
RECURSIVE JoinNL(_)
JoinNL(ps) ==
    IF ps = <<>> THEN <<>>
    ELSE IF Len(ps) = 1 THEN ps[1]
    ELSE ps[1] \o <<"\n">> \o JoinNL(Tail(ps))


\* ------------------------------------------------------------ job record
\* const job = { id, status: "queued", progress: 0, stage: "Na fila" }
NewJob(id) ==
    [id |-> id, status |-> "queued", progress |-> 0, stage |-> Stage("Na fila")]

\* Variant of StartJob: the background task begins in a later turn of the
\* event loop, and the record is registered as it was built.
StartJobDeferred(rec) == rec

\* the first four assignments of the background task
StartJob(rec) ==
    SetField([rec EXCEPT !.status = "processing",
                         !.progress = 5,
                         !.stage = Stage("Iniciando")],
             "startedAt", "date")

\* Variant of OnProgress: the callback also marks the job as processing.
OnProgressMarksProcessing(rec, stage, progress) ==
    [rec EXCEPT !.status = "processing",
                !.progress = Max(0, Min(99, progress)), !.stage = stage]

\* the progress callback handed to transcribe
OnProgress(rec, stage, progress) ==
    [rec EXCEPT !.progress = Max(0, Min(99, progress)), !.stage = stage]

\* Variant of CompleteJob: the download reference is not set.
CompleteJobNoUrl(rec, transcription) ==
    SetField(
      SetField([rec EXCEPT !.status = "completed",
                           !.progress = 100,
                           !.stage = Stage("Concluido")],
               "completedAt", "date"),
      "transcription", transcription)

\* the assignments after `await transcribe(...)` returned
CompleteJob(rec, transcription) ==
    SetField(
      SetField(
        SetField([rec EXCEPT !.status = "completed",
                             !.progress = 100,
                             !.stage = Stage("Concluido")],
                 "completedAt", "date"),
        "transcription", transcription),
      "downloadUrl", <<"/downloads/", rec.id, ".txt">>)

\* the catch branch
FailJob(rec, message) ==
    SetField(
      SetField([rec EXCEPT !.status = "failed",
                           !.progress = 100,
                           !.stage = Stage("Falha")],
               "completedAt", "date"),
      "error", message)

\* ------------------------------------------------------------ HTTP
\* req.body.fullAudio: a text field of the multipart form, a JSON boolean,
\* or undefined when the form has no such field
FormField(text) == << "string", text >>
JsonTrue == << "boolean", "true" >>
NoField == << "undefined", "" >>

\* the fullAudio fields a request is drawn from
Bodies == { NoField, FormField("true"), FormField("false") }

\* req.body.fullAudio === "true" || req.body.fullAudio === true
FullAudio(field) == field = FormField("true") \/ field = JsonTrue

\* res.status(code).json(body)
Response(code, body) == [code |-> code, body |-> body]

\* the answer to an accepted POST /transcribe
Accepted(id) ==
    Response(202, [id |-> id, statusUrl |-> << "/api/transcribe/", id >>])

\* the answer to GET /transcribe/:id for an id the registry does not hold
NotFound == Response(404, [error |-> "Transcricao nao encontrada."])

\* ------------------------------------------------------------ runCommand
\* The events the child process object delivers for each way of ending.  A
\* failed spawn delivers 'error' and then 'close' with the negative errno.
Events(outcome) ==
    CASE outcome = "exit0"  -> << [type |-> "close", code |-> "0"] >>
      [] outcome = "exit1"  -> << [type |-> "close", code |-> "1"] >>
      [] outcome = "killed" -> << [type |-> "close", code |-> "null"] >>
      [] outcome = "enoent" -> << [type |-> "error", code |-> "ENOENT"],
                                  [type |-> "close", code |-> "-2"] >>

NoError == Msg("", 0, "none", "")

\* the promise runCommand returns, before any event
Pending == [state |-> "pending", err |-> NoError]

\* Variant of OnEvent: the 'close' handler resolves whatever the exit code.
OnEventIgnoresExitCode(p, ev, errPrefix, block) ==
    IF p.state # "pending" THEN p
    ELSE IF ev.type = "error"
    THEN [state |-> "rejected", err |-> Msg(errPrefix, block, "spawn", ev.code)]
    ELSE [state |-> "resolved", err |-> NoError]

\* Variant of OnEvent: the 'close' handler returns on a non-zero code
\* without rejecting.
OnEventNoReject(p, ev, errPrefix, block) ==
    IF p.state # "pending" THEN p
    ELSE IF ev.type = "error"
    THEN [state |-> "rejected", err |-> Msg(errPrefix, block, "spawn", ev.code)]
    ELSE IF ev.code # "0" THEN p
         ELSE [state |-> "resolved", err |-> NoError]

\* Variant of OnEvent: no 'error' handler is registered.
OnEventNoErrorHandler(p, ev, errPrefix, block) ==
    IF p.state # "pending" \/ ev.type = "error" THEN p
    ELSE IF ev.code # "0"
         THEN [state |-> "rejected",
               err |-> Msg(errPrefix, block, "exit", ev.code)]
         ELSE [state |-> "resolved", err |-> NoError]

\* Variant of OnEvent: each handler overwrites what an earlier one settled.
OnEventLastWins(p, ev, errPrefix, block) ==
    IF ev.type = "error"
    THEN [state |-> "rejected", err |-> Msg(errPrefix, block, "spawn", ev.code)]
    ELSE IF ev.code # "0"
         THEN [state |-> "rejected",
               err |-> Msg(errPrefix, block, "exit", ev.code)]
         ELSE [state |-> "resolved", err |-> NoError]

\* What the handler of one event does to the promise p: the 'error' handler
\* rejects, the 'close' handler rejects unless the code is 0 and resolves
\* otherwise; resolve and reject of a settled promise do nothing.
OnEvent(p, ev, errPrefix, block) ==
    IF p.state # "pending" THEN p
    ELSE IF ev.type = "error"
    THEN [state |-> "rejected", err |-> Msg(errPrefix, block, "spawn", ev.code)]
    ELSE IF ev.code # "0"
         THEN [state |-> "rejected",
               err |-> Msg(errPrefix, block, "exit", ev.code)]
         ELSE [state |-> "resolved", err |-> NoError]

RECURSIVE Deliver(_, _, _, _)
Deliver(p, evs, errPrefix, block) ==
    IF evs = <<>> THEN p
    ELSE Deliver(OnEvent(p, Head(evs), errPrefix, block), Tail(evs),
                 errPrefix, block)

\* The promise once the child has delivered all its events.  It stays
\* pending when no handler settled it: nothing then wakes the awaiting code.
RunCommand(outcome, errPrefix, block) ==
    Deliver(Pending, Events(outcome), errPrefix, block)

\* The events a child process can deliver: those of Events, and an 'error'
\* for a binary that may not be executed.
ChildEvents ==
    UNION { { Events(o)[i] : i \in DOMAIN Events(o) } : o \in Outcomes }
      \cup { [type |-> "error", code |-> "EACCES"] }

\* the arguments of the normalize ffmpeg
NormalizeArgs ==
    << "-y", "-i", "inputFile", "-ac", "1", "-ar", "16000", "normalizedInput" >>

\* ------------------------------------------------------------ collectChunkFiles
\* A directory entry chunk_<num>.<ext>; num is printed with %03d, so
\* localeCompare orders the names of one extension by num (num < 1000).
Entry(num, ext) == [num |-> num, ext |-> ext]

NameBefore(a, b) == a.num < b.num

RECURSIVE Insert(_, _)
Insert(x, s) ==
    IF s = <<>> THEN <<x>>
    ELSE IF NameBefore(x, Head(s)) THEN <<x>> \o s
    ELSE <<Head(s)>> \o Insert(x, Tail(s))

RECURSIVE SortNames(_)
SortNames(s) == IF s = <<>> THEN <<>> ELSE Insert(Head(s), SortNames(Tail(s)))

EndsWithWav(e) == e.ext = "wav"

\* Variant of CollectChunkFiles: the entries are not filtered.
CollectNoFilter(entries) == SortNames(entries)

\* entries.filter(endsWith(".wav")).sort(localeCompare).map(join)
CollectChunkFiles(entries) == SortNames(SelectSeq(entries, EndsWithWav))

\* ------------------------------------------------------------ worker pool
\* Variant of Concurrency: one worker for every two cores.
ConcurrencyPerTwoCores(n, cpuCores) == Min(n, Max(1, cpuCores \div 2))

\* Math.min(chunks.length, Math.max(1, Math.floor(cpuCores / 4)))
Concurrency(n, cpuCores) == Min(n, Max(1, cpuCores \div 4))

\* Variant of ThreadsPerProcess: the cores are divided without a floor.
ThreadsPerProcessNoFloor(cpuCores, concurrency) == cpuCores \div concurrency

\* Math.max(4, Math.floor(cpuCores / concurrency))
ThreadsPerProcess(cpuCores, concurrency) == Max(4, cpuCores \div concurrency)

\* Variant of ChunkProgress: Math.floor instead of Math.round.
ChunkProgressFloor(completed, n) == 25 + ((65 * completed) \div n)

\* 25 + Math.round((completedChunks / chunks.length) * 65)
ChunkProgress(completed, n) == 25 + Round(65 * completed, n)

\* [...chunks.keys()]
Keys(n) == [i \in 1..n |-> i - 1]

\* Variant of StorePart: the text goes to the first free slot, as a
\* parts.push(text) in completion order would place it.
StorePartFirstFree(ps, index, text) ==
    LET free == { i \in 1..Len(ps) : ps[i] = <<>> }
    IN IF free = {} THEN [ps EXCEPT ![index + 1] = text]
       ELSE [ps EXCEPT ![CHOOSE i \in free : \A k \in free : i <= k] = text]

\* parts[index] = text
StorePart(ps, index, text) == [ps EXCEPT ![index + 1] = text]

\* Variant of StartWorkers: the workers read queue[0] without removing it.
RECURSIVE StartWorkersPeek(_, _, _)
StartWorkersPeek(q, started, c) ==
    IF c <= 0 THEN [queue |-> q, workers |-> started]
    ELSE IF q # <<>>
         THEN StartWorkersPeek(q,
                               Append(started, [st |-> "run", idx |-> Head(q)]),
                               c - 1)
         ELSE StartWorkersPeek(q, Append(started, [st |-> "done", idx |-> -1]),
                               c - 1)

\* Array.from({ length: concurrency }, () => worker()): each call runs the
\* worker up to its first await, i.e. it shifts one index and spawns the
\* recognizer, or returns at once when the queue is already empty.
RECURSIVE StartWorkers(_, _, _)
StartWorkers(q, started, c) ==
    IF c <= 0 THEN [queue |-> q, workers |-> started]
    ELSE IF q # <<>>
         THEN StartWorkers(Tail(q),
                           Append(started, [st |-> "run", idx |-> Head(q)]),
                           c - 1)
         ELSE StartWorkers(q, Append(started, [st |-> "done", idx |-> -1]),
                           c - 1)

\* Promise.all(workers) resolves when every worker promise is resolved
AllDone(wks) == \A w \in DOMAIN wks : wks[w].st = "done"


\* the worker pool record before `concurrency` is computed
NoPool == [n |-> 0, cpuCores |-> 0, concurrency |-> 0, threadsPerProcess |-> 0,
           queue |-> 0, running |-> 0, completedChunks |-> 0,
           reported |-> <<>>]

\* ------------------------------------------------------------ the page
\* JavaScript's `x || fallback` on strings: "" is falsy.  Texts and URLs are
\* sequences ("" is <<>>), a stage is Stage(name), an optional field of a
\* snapshot is absent when undefined.
NoText == <<>>

\* the component's state after useState, no handler running.  `file` says
\* whether a file is chosen; `at` is where onTranscribe is suspended and
\* `seen` the snapshots its polling loop received since the last click.
\* isRefining and isSummarizing are true exactly while onRefine and
\* onSummarize await their answer.
AppIdle ==
    [file |-> FALSE, loading |-> FALSE, progress |-> 0,
     progressStage |-> Stage(""), transcription |-> NoText,
     downloadUrl |-> NoText, error |-> <<>>, times |-> <<>>,
     isRefining |-> FALSE, summary |-> NoText, isSummarizing |-> FALSE,
     at |-> "idle", seen |-> <<>>]

\* data.<field>, <<>> when the snapshot has no such field
Field(data, k) == IF k \in DOMAIN data THEN << data[k] >> ELSE <<>>

\* onFileChange: the chosen file (none when the dialog was cancelled) is
\* stored and the result, the error and the progress are cleared
FileChanged(st, selected) ==
    [st EXCEPT !.file = selected, !.transcription = NoText,
               !.summary = NoText, !.downloadUrl = NoText, !.error = <<>>,
               !.progress = 0, !.progressStage = Stage("")]

\* the state setters at the head of onTranscribe's try block, up to the
\* await of the POST
BeginTranscribe(st) ==
    [st EXCEPT !.loading = TRUE, !.error = <<>>, !.transcription = NoText,
               !.downloadUrl = NoText, !.summary = NoText, !.progress = 0,
               !.progressStage = Stage("Enviando arquivo"),
               !.at = "posting", !.seen = <<>>]

\* the stage `Enviando: ${percentCompleted}%`
StageUpload(percentCompleted) == <<"Enviando", percentCompleted, 0>>

\* the onUploadProgress callback for one progress event; `total` is <<>>
\* when the event has none
UploadProgress(st, ev) ==
    LET total == IF ev.total # <<>> THEN ev.total[1] ELSE 1
        percentCompleted == Round(ev.loaded * 100, total)
    IN [st EXCEPT
          !.progress = percentCompleted,
          !.progressStage = IF percentCompleted < 100
                            THEN StageUpload(percentCompleted)
                            ELSE Stage("Processando no servidor...")]

\* the catch and the finally block of onTranscribe, for an error carrying
\* `message`
Caught(st, message) ==
    [st EXCEPT !.error = << message >>, !.progress = 0,
               !.progressStage = Stage(""), !.loading = FALSE, !.at = "caught"]

\* Variant of PollOnce: a failed snapshot is treated like one in progress.
PollOnceIgnoresFailed(st, data) ==
    LET st1 == [st EXCEPT
                  !.progress = data.progress,
                  !.progressStage = IF data.stage # Stage("") THEN data.stage
                                    ELSE Stage("Processando"),
                  !.times = IF "startedAt" \in DOMAIN data
                               \/ "completedAt" \in DOMAIN data
                            THEN << [start |-> Field(data, "startedAt"),
                                     end |-> Field(data, "completedAt")] >>
                            ELSE @,
                  !.seen = Append(@, data)]
    IN IF data.status = "completed"
       THEN [st1 EXCEPT
               !.transcription = IF "transcription" \in DOMAIN data
                                 THEN data.transcription ELSE NoText,
               !.downloadUrl = IF "downloadUrl" \in DOMAIN data
                               THEN data.downloadUrl ELSE NoText,
               !.loading = FALSE, !.at = "done"]
       ELSE st1

\* One round of the while loop after its timer fired and the GET answered
\* 200 with `data`: the display is updated, a completed snapshot ends the
\* loop, a failed one throws the job's error (or the default message).
PollOnce(st, data) ==
    LET st1 == [st EXCEPT
                  !.progress = data.progress,
                  !.progressStage = IF data.stage # Stage("") THEN data.stage
                                    ELSE Stage("Processando"),
                  !.times = IF "startedAt" \in DOMAIN data
                               \/ "completedAt" \in DOMAIN data
                            THEN << [start |-> Field(data, "startedAt"),
                                     end |-> Field(data, "completedAt")] >>
                            ELSE @,
                  !.seen = Append(@, data)]
    IN IF data.status = "completed"
       THEN [st1 EXCEPT
               !.transcription = IF "transcription" \in DOMAIN data
                                 THEN data.transcription ELSE NoText,
               !.downloadUrl = IF "downloadUrl" \in DOMAIN data
                               THEN data.downloadUrl ELSE NoText,
               !.loading = FALSE, !.at = "done"]
       ELSE IF data.status = "failed"
       THEN Caught(st1, IF "error" \in DOMAIN data THEN data.error
                        ELSE Msg("Falha ao transcrever o audio.", 0, "none", ""))
       ELSE st1

\* err.response?.data?.error || fallback, for a request axios rejected
\* with the response `res` (<<>> when there was no answer)
ErrorOr(res, fallback) ==
    IF res # <<>> /\ "error" \in DOMAIN res[1].body
    THEN Msg(res[1].body.error, 0, "none", "")
    ELSE Msg(fallback, 0, "none", "")

\* the message onTranscribe shows for a request axios rejected
AxiosMessage(res) ==
    ErrorOr(res, "Falha ao enviar arquivo ou processar transcricao.")

\* onRefine after its POST settled: the refined text replaces the
\* transcription (nothing is shown when the answer carries no text), a
\* rejection sets the error; the finally block clears isRefining
Refined(st, res) ==
    IF res # <<>> /\ res[1].code = 200
    THEN [st EXCEPT !.transcription = res[1].body.refinedText,
                    !.isRefining = FALSE]
    ELSE [st EXCEPT !.error = << ErrorOr(res, "Falha ao refinar texto.") >>,
                    !.isRefining = FALSE]

\* onSummarize after its POST settled
Summarized(st, res) ==
    IF res # <<>> /\ res[1].code = 200
    THEN [st EXCEPT !.summary = res[1].body.summary, !.isSummarizing = FALSE]
    ELSE [st EXCEPT
            !.error = << Msg("Erro ao gerar resumo técnico.", 0, "none", "") >>,
            !.isSummarizing = FALSE]

\* ------------------------------------------------------------ state
VARIABLES
    env,              \* the machine: cpuCores, whisperInstalled, free ids, maxN
    jobs,             \* the registry: id -> job record, for the ids registered
    acked,            \* the ids sent back in a 202 answer
    postRes,          \* the answer each POST /transcribe got: <<>> or <<res>>
    request,          \* each job's fullAudio: the request's field and the
                      \* flag handed to transcribe, which has no parameter
                      \* for it
    pc,               \* where each job's background task is suspended
    ws,               \* each job's scratch directory
    upload,           \* each job's uploaded source file, and the unlink
                      \* the route does on it
    chunks,           \* chunks (the sorted chunk files) of each transcribe call
    queue,            \* queue (the indices not yet pulled)
    parts,            \* parts (the result slots)
    completedChunks,  \* completedChunks
    workers,          \* the worker promises and the index each one awaits
    chunksDir,        \* the entries the segment step left in chunksDir
    partTxt,          \* what the recognizer wrote as part_<idx>.txt, per index
    listed,           \* how readdir(chunksDir) settled for each job: "none"
                      \* before it did, then "ok" or "failed"
    exitLog,          \* the child processes that ended, in order
    outputs,          \* <outputsDir>/<id>.txt: <<>> or <<content>>
    spawnLog,         \* the child processes spawned, in order
    lastSnap,         \* the last snapshot a client got for each job
    getRes,           \* the last answer to GET /transcribe/:id, per id
    tally,            \* per job: the calls of rm(workDir) and unlink(inputFile)
                      \* made and the terminal transitions taken so far
    run,              \* one runCommand call on its own: its promise and the
                      \* events its child has delivered
    calc,             \* one worker pool on its own: its sizes, its counter
                      \* and the progress values it reported
    app               \* the page on its own: the state of the App component,
                      \* the position of onTranscribe and the snapshots its
                      \* polling loop has received since the last click

vars == << env, jobs, acked, postRes, request, pc, ws, upload, chunks, queue, parts, completedChunks,
           workers, chunksDir, partTxt, listed, exitLog, outputs, spawnLog,
           lastSnap, getRes, tally, run, calc, app >>

snapVars == << lastSnap, getRes >>

unitVars == << run, calc, app >>

reqVars == << acked, postRes, request >>

poolVars == << chunks, queue, parts, completedChunks, workers, partTxt,
              listed >>

logVars == << exitLog, spawnLog >>

\* log entries: the step a process belongs to and, for a recognizer, the
\* chunk index it was given (-1 otherwise)
Spawned(step, idx) == [step |-> step, idx |-> idx]
SpawnedArgs(step, idx, args) == [step |-> step, idx |-> idx, args |-> args]
Ended(step, idx, outcome) == [step |-> step, idx |-> idx, ok |-> outcome = "exit0"]

Registered == DOMAIN jobs

IsTerminal(j) == j \in Registered /\ jobs[j].status \in Terminal

\* ids: the identifiers uuidv4() can return; maxN: the most chunks a
\* segmentation leaves; bodies: the fullAudio fields a request can carry;
\* asks: the identifiers clients ask the status of.
InitEnv(ids, maxN, bodies, asks) ==
    /\ env \in [cpuCores : CpuChoices, whisperInstalled : BOOLEAN,
                ids : {ids}, maxN : {maxN}, bodies : {bodies}, asks : {asks}]
    /\ jobs = [j \in {} |-> NewJob(j)]
    /\ acked = {}
    /\ postRes = [j \in AllIds |-> <<>>]
    /\ request = [j \in AllIds |-> <<>>]
    /\ pc = [j \in AllIds |-> "none"]
    /\ ws = [j \in AllIds |-> "absent"]
    /\ upload = [j \in AllIds |-> "absent"]
    /\ chunks = [j \in AllIds |-> <<>>]
    /\ queue = [j \in AllIds |-> <<>>]
    /\ parts = [j \in AllIds |-> <<>>]
    /\ completedChunks = [j \in AllIds |-> 0]
    /\ workers = [j \in AllIds |-> <<>>]
    /\ chunksDir = [j \in AllIds |-> {}]
    /\ partTxt = [j \in AllIds |-> <<>>]
    /\ listed = [j \in AllIds |-> "none"]
    /\ exitLog = [j \in AllIds |-> <<>>]
    /\ outputs = [j \in AllIds |-> <<>>]
    /\ spawnLog = [j \in AllIds |-> <<>>]
    /\ lastSnap = [j \in AllIds |-> <<>>]
    /\ getRes = [j \in AllIds |-> <<>>]
    /\ tally = [j \in AllIds |-> [rm |-> 0, unlink |-> 0, terminal |-> 0]]
    /\ run = [p |-> Pending, evs |-> <<>>]
    /\ calc = NoPool
    /\ app = AppIdle

\* Requests as the page sends them (fullAudio unchecked), status queries for
\* the identifiers that can be issued.
InitWith(ids, maxN) == InitEnv(ids, maxN, { FormField("false") }, ids)

\* One machine, one free identifier: a single job in full detail.
Init == InitWith({1}, MaxChunks)

\* ------------------------------------------------------------ pipeline exits
\* fs.promises.unlink(inputFile) is called: on the upload, or on the name of
\* an upload the cleanup timer has deleted already
StartUnlink(file) == IF file = "present" THEN "unlinking" ELSE "unlinkingDeleted"

\* Variant of Throw: the removal of workDir is started on the success path
\* only, not in a finally block.
ThrowNoFinally(j, rec, message, inTry) ==
    /\ UNCHANGED ws
    /\ jobs' = [jobs EXCEPT ![j] = FailJob(rec, message)]
    /\ upload' = [upload EXCEPT ![j] = StartUnlink(@)]
    /\ pc' = [pc EXCEPT ![j] = "settled"]
    /\ tally' = [tally EXCEPT ![j] =
                   [rm |-> @.rm,
                    unlink |-> @.unlink + 1,
                    terminal |-> @.terminal + 1]]

\* Variant of Throw: the catch branch writes a `job` variable that all
\* requests share, which holds the job registered last.
ThrowOnSharedJob(j, rec, message, inTry) ==
    LET last == CHOOSE x \in Registered : \A y \in Registered : y <= x
    IN /\ ws' = [ws EXCEPT ![j] = IF inTry THEN "removing" ELSE @]
       /\ jobs' = [jobs EXCEPT ![last] =
                     FailJob(IF last = j THEN rec ELSE @, message)]
       /\ upload' = [upload EXCEPT ![j] = StartUnlink(@)]
       /\ pc' = [pc EXCEPT ![j] = "settled"]
       /\ tally' = [tally EXCEPT ![j] =
                      [rm |-> @.rm + (IF inTry THEN 1 ELSE 0),
                       unlink |-> @.unlink + 1,
                       terminal |-> @.terminal + 1]]

\* transcribe throws with `message`: the finally block starts the removal of
\* workDir without awaiting it (inTry is false only for a failed mkdtemp,
\* which is outside the try), then the route's catch branch runs and its
\* finally block starts the unlink of the upload.  rec is the job record as
\* the event's earlier callbacks left it.
Throw(j, rec, message, inTry) ==
    /\ ws' = [ws EXCEPT ![j] = IF inTry THEN "removing" ELSE @]
    /\ jobs' = [jobs EXCEPT ![j] = FailJob(rec, message)]
    /\ upload' = [upload EXCEPT ![j] = StartUnlink(@)]
    /\ pc' = [pc EXCEPT ![j] = "settled"]
    /\ tally' = [tally EXCEPT ![j] =
                   [rm |-> @.rm + (IF inTry THEN 1 ELSE 0),
                    unlink |-> @.unlink + 1,
                    terminal |-> @.terminal + 1]]

\* transcribe returns: the same finally block, then the assignments of the
\* completed transition and the route's finally block.
Return(j, rec, transcription) ==
    /\ ws' = [ws EXCEPT ![j] = "removing"]
    /\ jobs' = [jobs EXCEPT ![j] = CompleteJob(rec, transcription)]
    /\ upload' = [upload EXCEPT ![j] = StartUnlink(@)]
    /\ pc' = [pc EXCEPT ![j] = "settled"]
    /\ tally' = [tally EXCEPT ![j] =
                   [rm |-> @.rm + 1,
                    unlink |-> @.unlink + 1,
                    terminal |-> @.terminal + 1]]

\* Variant of WriteFileSync: the file is left as it was.
WriteSkipped(file, data) == file

\* fs.writeFileSync(outputFile, data, "utf-8"): the file afterwards
WriteFileSync(file, data) == << data >>

\* fs.writeFileSync(outputFile, data, "utf-8") throws: either the file could
\* not be opened and is left as it was, or it was opened with flag "w"
\* A value for "some proper prefix of the text data", equal to no text.
PartOf(data) == << "part of" >> \o data

\* (created, emptied) and a write failed after some proper prefix of the
\* data, which prefix is left open: the file is then << PartOf(data) >>.
\* There is nothing to write for empty data, so only the open can fail.
FailedWrite(file, data) ==
    {file} \cup (IF data # <<>> THEN { << PartOf(data) >> } ELSE {})

FsError(call) == Msg(call, 0, "fs", "EIO")

\* new Error("Nenhum bloco de audio foi gerado para transcricao.")
NoChunksMsg == Msg("Nenhum bloco de audio foi gerado para transcricao.",
                   0, "none", "")

\* ------------------------------------------------------------ actions
\* Variant of Submit: the answer is held back until the background task is
\* over, so nothing is sent in this step.
SubmitNoAck(j) ==
    /\ j \in env.ids
    /\ j \notin Registered
    /\ jobs' = [x \in Registered \cup {j} |->
                  IF x = j THEN StartJob(NewJob(j)) ELSE jobs[x]]
    /\ \E field \in env.bodies :
         request' = [request EXCEPT ![j] =
                       << [field |-> field, fullAudio |-> FullAudio(field)] >>]
    /\ upload' = [upload EXCEPT ![j] = "present"]
    /\ UNCHANGED tally
    /\ pc' = [pc EXCEPT ![j] = "mkdtemp"]
    /\ UNCHANGED << env, unitVars, acked, postRes, ws, poolVars, logVars, chunksDir,
                    outputs, snapVars >>

\* POST /transcribe with a file: register the job, answer 202, and run the
\* background task up to its first await (mkdtemp).
Submit(j) ==
    /\ j \in env.ids
    /\ j \notin Registered
    /\ jobs' = [x \in Registered \cup {j} |->
                  IF x = j THEN StartJob(NewJob(j)) ELSE jobs[x]]
    /\ \E field \in env.bodies :
         request' = [request EXCEPT ![j] =
                       << [field |-> field, fullAudio |-> FullAudio(field)] >>]
    /\ acked' = acked \cup {j}
    /\ postRes' = [postRes EXCEPT ![j] = << Accepted(j) >>]
    /\ upload' = [upload EXCEPT ![j] = "present"]
    /\ UNCHANGED tally
    /\ pc' = [pc EXCEPT ![j] = "mkdtemp"]
    /\ UNCHANGED << env, unitVars, ws, poolVars, logVars, chunksDir, outputs, snapVars >>

\* fs.promises.mkdtemp settles
MkdtempDone(j, ok) ==
    /\ pc[j] = "mkdtemp"
    /\ IF ok
       THEN /\ ws' = [ws EXCEPT ![j] = "exists"]
            /\ pc' = [pc EXCEPT ![j] = "mkdirChunks"]
            /\ UNCHANGED << jobs, upload, tally >>
       ELSE Throw(j, jobs[j], FsError("mkdtemp"), FALSE)
    /\ UNCHANGED << env, unitVars, reqVars, poolVars, logVars, chunksDir, outputs, snapVars >>

\* fs.promises.mkdir(chunksDir) settles
MkdirChunksDone(j, ok) ==
    /\ pc[j] = "mkdirChunks"
    /\ IF ok
       THEN /\ pc' = [pc EXCEPT ![j] = "mkdirPartial"]
            /\ UNCHANGED << jobs, upload, tally, ws >>
       ELSE Throw(j, jobs[j], FsError("mkdir"), TRUE)
    /\ UNCHANGED << env, unitVars, reqVars, poolVars, logVars, chunksDir, outputs, snapVars >>

\* The error runCommand rejects with when its spawn fails: the child object
\* delivers 'error' before the turn that called spawn is over, so the
\* awaiting code is resumed with the rejection in that same turn.
SpawnError(errPrefix, block) == RunCommand("enoent", errPrefix, block).err

\* fs.promises.mkdir(partialDir) settles; on success the normalize ffmpeg
\* is spawned (spawned: the spawn did not fail), and a failed spawn fails
\* the job in this same turn
MkdirPartialDone(j, ok, spawned) ==
    /\ pc[j] = "mkdirPartial"
    /\ ~ok => spawned
    /\ LET rec1 == OnProgress(jobs[j], Stage("Normalizando audio"), 10)
       IN IF ~ok
          THEN /\ Throw(j, jobs[j], FsError("mkdir"), TRUE)
               /\ UNCHANGED logVars
          ELSE /\ spawnLog' = [spawnLog EXCEPT ![j] =
                                 Append(@, SpawnedArgs("normalize", -1,
                                                       NormalizeArgs))]
               /\ IF spawned
                  THEN /\ jobs' = [jobs EXCEPT ![j] = rec1]
                       /\ pc' = [pc EXCEPT ![j] = "normalize"]
                       /\ UNCHANGED << upload, tally, ws, exitLog >>
                  ELSE /\ exitLog' = [exitLog EXCEPT ![j] =
                                        Append(@, Ended("normalize", -1, "enoent"))]
                       /\ Throw(j, rec1,
                                SpawnError("Erro ao normalizar audio com ffmpeg", 0),
                                TRUE)
    /\ UNCHANGED << env, unitVars, reqVars, poolVars, chunksDir, outputs, snapVars >>

\* the awaited promise never settles: the task stays suspended for good
Stuck(j) ==
    /\ pc' = [pc EXCEPT ![j] = "stuck"]
    /\ UNCHANGED << jobs, upload, tally, ws >>

\* the normalize ffmpeg ends (it cannot have exited with code 0 when its
\* input had been deleted before it opened it); on success the segment
\* ffmpeg is spawned, and a failed spawn fails the job in this same turn
NormalizeExit(j, outcome, spawned) ==
    /\ pc[j] = "normalize"
    /\ outcome \in Exits
    /\ upload[j] = "expired" => outcome # "exit0"
    /\ outcome # "exit0" => spawned
    /\ LET r == RunCommand(outcome, "Erro ao normalizar audio com ffmpeg", 0)
           rec1 == OnProgress(jobs[j], Stage("Segmentando audio"), 20)
       IN CASE r.state = "resolved" ->
                 /\ spawnLog' = [spawnLog EXCEPT ![j] =
                                   Append(@, Spawned("segment", -1))]
                 /\ IF spawned
                    THEN /\ jobs' = [jobs EXCEPT ![j] = rec1]
                         /\ pc' = [pc EXCEPT ![j] = "segment"]
                         /\ exitLog' = [exitLog EXCEPT ![j] =
                                          Append(@, Ended("normalize", -1, outcome))]
                         /\ UNCHANGED << upload, tally, ws >>
                    ELSE /\ exitLog' = [exitLog EXCEPT ![j] =
                                          Append(Append(@, Ended("normalize", -1,
                                                                 outcome)),
                                                 Ended("segment", -1, "enoent"))]
                         /\ Throw(j, rec1,
                                  SpawnError("Erro ao segmentar audio com ffmpeg", 0),
                                  TRUE)
            [] r.state = "rejected" ->
                 /\ Throw(j, jobs[j], r.err, TRUE)
                 /\ exitLog' = [exitLog EXCEPT ![j] =
                                  Append(@, Ended("normalize", -1, outcome))]
                 /\ UNCHANGED spawnLog
            [] OTHER ->
                 /\ Stuck(j)
                 /\ exitLog' = [exitLog EXCEPT ![j] =
                                  Append(@, Ended("normalize", -1, outcome))]
                 /\ UNCHANGED spawnLog
    /\ UNCHANGED << env, unitVars, reqVars, poolVars, chunksDir, outputs, snapVars >>

\* what the segment ffmpeg left in chunksDir: chunk_000.wav .. chunk_<n-1>.wav,
\* and possibly a file that is no .wav
DirEntries(n, junk) ==
    { Entry(i, "wav") : i \in 0..(n - 1) } \cup
    (IF junk THEN { Entry(n, "tmp") } ELSE {})

\* The directories a segment run can leave.  A stray file is only drawn
\* together with at most one chunk: it is dropped by the filter whatever the
\* number of chunks.
DirChoices(maxN) ==
    { DirEntries(n, FALSE) : n \in 0..maxN } \cup
    { DirEntries(n, TRUE) : n \in 0..Min(1, maxN) }

\* the segment ffmpeg ends, having written `entries`; on success
\* readdir(chunksDir) is started
SegmentExit(j, outcome, entries) ==
    /\ pc[j] = "segment"
    /\ outcome \in Exits
    /\ chunksDir' = [chunksDir EXCEPT ![j] = entries]
    /\ LET r == RunCommand(outcome, "Erro ao segmentar audio com ffmpeg", 0)
       IN CASE r.state = "resolved" ->
                 /\ pc' = [pc EXCEPT ![j] = "readdir"]
                 /\ UNCHANGED << jobs, upload, tally, ws >>
            [] r.state = "rejected" -> Throw(j, jobs[j], r.err, TRUE)
            [] OTHER -> Stuck(j)
    /\ exitLog' = [exitLog EXCEPT ![j] =
                     Append(@, Ended("segment", -1, outcome))]
    /\ UNCHANGED << env, unitVars, reqVars, poolVars, spawnLog, outputs, snapVars >>


\* the orders in which readdir can list the entries of S
Listings(S) ==
    { l \in [1..Cardinality(S) -> S] :
        \A a, b \in 1..Cardinality(S) : a # b => l[a] # l[b] }

\* the workers whose first spawn can fail, for n chunks: none, some or all
\* of them, and all of them on a machine without the recognizer
SpawnFailures(n) ==
    LET W == 1..Concurrency(n, env.cpuCores)
    IN IF n = 0 THEN { {} }
       ELSE IF env.whisperInstalled THEN SUBSET W ELSE { W }

\* readdir(chunksDir) has settled with `listing`.  With at least one chunk the
\* pool is set up and every worker is started; Promise.all is then awaited.
\* The workers in `failed` are those whose spawn failed: each of them is
\* rejected before the turn is over, Promise.all rejects with the error of
\* the first of them and the job is failed in this same turn.
ReaddirSettles(j, ok, listing, failed) ==
    /\ IF ~ok
       THEN /\ listing = <<>>
            /\ failed = {}
            /\ listed' = [listed EXCEPT ![j] = "failed"]
            /\ Throw(j, jobs[j], FsError("readdir"), TRUE)
            /\ UNCHANGED << chunks, queue, parts, completedChunks, workers,
                            partTxt, logVars, outputs >>
       ELSE LET cs == CollectChunkFiles(listing)
                n == Len(cs)
                rec1 == OnProgress(jobs[j],
                                   Stage("Transcrevendo blocos (Otimizado)"), 25)
                sp == StartWorkers(Keys(n), <<>>,
                                   Concurrency(n, env.cpuCores))
                wks == [w \in DOMAIN sp.workers |->
                          IF w \in failed
                          THEN [st |-> "rejected", idx |-> sp.workers[w].idx]
                          ELSE sp.workers[w]]
                ends == [w \in DOMAIN sp.workers |->
                           [w |-> w,
                            e |-> Ended("whisper", sp.workers[w].idx, "enoent")]]
                lost == SelectSeq(ends, LAMBDA x : x.w \in failed)
                first == CHOOSE w \in failed : \A v \in failed : w <= v
            IN /\ listed' = [listed EXCEPT ![j] = "ok"]
               /\ IF n = 0
                  THEN /\ failed = {}
                       /\ Throw(j, jobs[j], NoChunksMsg, TRUE)
                       /\ UNCHANGED << chunks, queue, parts, completedChunks,
                                       workers, partTxt, logVars, outputs >>
                  ELSE /\ chunks' = [chunks EXCEPT ![j] = cs]
                       /\ parts' = [parts EXCEPT ![j] = [i \in 1..n |-> <<>>]]
                       /\ completedChunks' = [completedChunks EXCEPT ![j] = 0]
                       /\ queue' = [queue EXCEPT ![j] = sp.queue]
                       /\ workers' = [workers EXCEPT ![j] = wks]
                       /\ spawnLog' = [spawnLog EXCEPT ![j] =
                                         @ \o [i \in 1..(n - Len(sp.queue)) |->
                                                 Spawned("whisper", i - 1)]]
                       /\ exitLog' = [exitLog EXCEPT ![j] =
                                        @ \o [i \in DOMAIN lost |-> lost[i].e]]
                       /\ partTxt' = [partTxt EXCEPT ![j] = [i \in 1..n |-> <<>>]]
                       /\ IF failed # {}
                          THEN /\ Throw(j, rec1,
                                        SpawnError("Erro no bloco",
                                                   sp.workers[first].idx + 1),
                                        TRUE)
                               /\ UNCHANGED outputs
                          ELSE IF AllDone(sp.workers)
                          THEN /\ outputs' = [outputs EXCEPT ![j] =
                                                WriteFileSync(@,
                                                  JoinNL([i \in 1..n |-> <<>>]))]
                               /\ Return(j, OnProgress(rec1, Stage("Finalizando"), 98),
                                         JoinNL([i \in 1..n |-> <<>>]))
                          ELSE /\ jobs' = [jobs EXCEPT ![j] = rec1]
                               /\ pc' = [pc EXCEPT ![j] = "pool"]
                               /\ UNCHANGED << ws, upload, tally, outputs >>
    /\ UNCHANGED << env, unitVars, reqVars, chunksDir, snapVars >>

\* readdir fails, or lists what the segment step left in any order
ReaddirDone(j) ==
    /\ pc[j] = "readdir"
    /\ \E ok \in BOOLEAN :
         IF ok
         THEN \E l \in Listings(chunksDir[j]) :
                 \E failed \in SpawnFailures(Len(CollectChunkFiles(l))) :
                    ReaddirSettles(j, TRUE, l, failed)
         ELSE ReaddirSettles(j, FALSE, <<>>, {})

\* Variant of AwaitingPool: every worker's rejection is caught by the
\* route, not only the first one.
AwaitingPoolOrFailed(j) == pc[j] \in {"pool", "settled"}

\* transcribe is suspended at `await Promise.all(workers)`: the promise of
\* Promise.all is pending, and its settlement resumes transcribe.  Once it
\* is settled, what the remaining workers do no longer reaches transcribe.
AwaitingPool(j) == pc[j] = "pool"

\* part_<idx>.txt exists and readFileSync throws on it (it is a directory,
\* or the read fails with EACCES or EIO)
Unreadable == << << "unreadable" >> >>

\* an output file: absent (<<>>), present with a content (<<text>>), or
\* present and unreadable
FileChoices == { <<>>, Unreadable } \cup { <<t>> : t \in Texts }

\* The recognizer awaited by worker w ends, having written `file` as
\* part_<idx>.txt.  The worker stores the part, reports progress and pulls the
\* next index, or finishes; the first worker to reject rejects Promise.all and
\* the last one to finish resolves it, in which case the transcript is
\* written (writeOk: writeFileSync did not throw) and transcribe returns; a
\* write that throws may leave a part of the transcript in the file.  When
\* readFileSync throws on the part the worker rejects like one whose
\* recognizer failed: it counts nothing and shifts no further index.  When
\* the spawn of the next recognizer fails (~spawned) the worker has counted
\* its chunk and is rejected in this same turn.
\* The workers run on whether or not Promise.all has been settled.
ChunkExit(j, w, outcome, file, writeOk, spawned) ==
    /\ w \in DOMAIN workers[j]
    /\ workers[j][w].st = "run"
    /\ outcome \in Exits
    /\ LET index == workers[j][w].idx
           n == Len(chunks[j])
           r == RunCommand(outcome, "Erro no bloco", index + 1)
           readThrows == r.state = "resolved" /\ file = Unreadable
           ps == IF file # <<>> THEN StorePart(parts[j], index, Trim(file[1]))
                 ELSE parts[j]
           k == completedChunks[j] + 1
           rec1 == OnProgress(jobs[j], StageChunks(k, n), ChunkProgress(k, n))
           more == queue[j] # <<>>
           spawns == r.state = "resolved" /\ ~readThrows /\ more
           wks == [workers[j] EXCEPT ![w] =
                     CASE r.state = "resolved" /\ ~readThrows ->
                            IF more
                            THEN [st |-> IF spawned THEN "run" ELSE "rejected",
                                  idx |-> Head(queue[j])]
                            ELSE [st |-> "done", idx |-> index]
                       [] r.state = "rejected" \/ readThrows ->
                            [st |-> "rejected", idx |-> index]
                       [] OTHER -> [st |-> "stuck", idx |-> index]]
           resolves == /\ r.state = "resolved"
                       /\ ~readThrows
                       /\ AwaitingPool(j)
                       /\ AllDone(wks)
           transcription == JoinNL(ps)
       IN /\ (outcome # "exit0" \/ ws[j] = "removed") => file = <<>>
          /\ ~resolves => writeOk
          /\ ~spawns => spawned
          /\ workers' = [workers EXCEPT ![j] = wks]
          /\ exitLog' = [exitLog EXCEPT ![j] =
                           IF spawned
                           THEN Append(@, Ended("whisper", index, outcome))
                           ELSE Append(Append(@, Ended("whisper", index, outcome)),
                                       Ended("whisper", Head(queue[j]), "enoent"))]
          /\ IF r.state = "resolved" /\ ~readThrows
             THEN /\ partTxt' = [partTxt EXCEPT ![j][index + 1] = file]
                  /\ parts' = [parts EXCEPT ![j] = ps]
                  /\ completedChunks' = [completedChunks EXCEPT ![j] = k]
                  /\ queue' = [queue EXCEPT ![j] = IF more THEN Tail(@) ELSE @]
                  /\ spawnLog' = [spawnLog EXCEPT ![j] =
                                    IF more
                                    THEN Append(@, Spawned("whisper", Head(queue[j])))
                                    ELSE @]
                  /\ IF resolves
                     THEN IF writeOk
                          THEN /\ outputs' = [outputs EXCEPT ![j] =
                                                WriteFileSync(@, transcription)]
                               /\ Return(j, OnProgress(rec1, Stage("Finalizando"), 98),
                                         transcription)
                          ELSE /\ Throw(j, rec1, FsError("writeFile"), TRUE)
                               /\ \E left \in FailedWrite(outputs[j], transcription) :
                                     outputs' = [outputs EXCEPT ![j] = left]
                     ELSE IF ~spawned /\ AwaitingPool(j)
                     THEN /\ Throw(j, rec1,
                                   SpawnError("Erro no bloco", Head(queue[j]) + 1),
                                   TRUE)
                          /\ UNCHANGED outputs
                     ELSE /\ jobs' = [jobs EXCEPT ![j] = rec1]
                          /\ UNCHANGED << pc, ws, upload, tally, outputs >>
             ELSE /\ IF (r.state = "rejected" \/ readThrows) /\ AwaitingPool(j)
                     THEN Throw(j, jobs[j],
                                IF readThrows THEN FsError("readFile") ELSE r.err,
                                TRUE)
                     ELSE UNCHANGED << jobs, pc, ws, upload, tally >>
                  /\ partTxt' = IF readThrows
                                THEN [partTxt EXCEPT ![j][index + 1] = file]
                                ELSE partTxt
                  /\ UNCHANGED << parts, completedChunks, queue,
                                  spawnLog, outputs >>
    /\ UNCHANGED << env, unitVars, reqVars, chunks, chunksDir, listed, snapVars >>

\* Variant of RmDone: the removal is awaited without a catch, so its failure
\* reaches the catch branch of the route.
RmDoneEscalates(j, ok) ==
    /\ ws[j] = "removing"
    /\ ws' = [ws EXCEPT ![j] = IF ok THEN "removed" ELSE "leftover"]
    /\ jobs' = [jobs EXCEPT ![j] =
                  IF ok THEN @ ELSE FailJob(@, FsError("rm"))]
    /\ UNCHANGED << env, unitVars, reqVars, pc, upload, tally, poolVars, logVars,
                    chunksDir, outputs, snapVars >>

\* fs.promises.rm(workDir) settles; its failure is swallowed
RmDone(j, ok) ==
    /\ ws[j] = "removing"
    /\ ws' = [ws EXCEPT ![j] = IF ok THEN "removed" ELSE "leftover"]
    /\ UNCHANGED << env, unitVars, reqVars, jobs, pc, upload, tally, poolVars, logVars, chunksDir,
                    outputs, snapVars >>

\* fs.promises.unlink(inputFile) settles; its failure is swallowed.  It
\* fails when the cleanup timer has deleted the file.
UnlinkDone(j, ok) ==
    /\ upload[j] \in {"unlinking", "unlinkingDeleted"}
    /\ upload[j] = "unlinkingDeleted" => ~ok
    /\ upload' = [upload EXCEPT ![j] =
                    IF ok \/ @ = "unlinkingDeleted" THEN "gone" ELSE "leftover"]
    /\ UNCHANGED tally
    /\ UNCHANGED << env, unitVars, reqVars, jobs, pc, ws, poolVars, logVars, chunksDir,
                    outputs, snapVars >>

\* ------------------------------------------------------------ cleanupOldFiles
\* the files of uploadsDir and outputsDir
UploadFile(j) == [dir |-> "uploads", id |-> j]
OutputFile(j) == [dir |-> "outputs", id |-> j]

\* the files readdirSync lists
OnDisk ==
    { UploadFile(j) : j \in { i \in AllIds :
                                 upload[i] \in {"present", "unlinking",
                                                "leftover"} } }
      \cup { OutputFile(j) : j \in { i \in AllIds : outputs[i] # <<>> } }

\* An upload after unlinkSync removed it: "expired" while the ffmpeg that
\* normalizes it has not opened it, "deleted" once nothing reads it any
\* more; a pending or failed unlink of the route finds no file.
Unlinked(j, opened) ==
    CASE upload[j] = "present" ->
           IF pc[j] \in {"mkdtemp", "mkdirChunks", "mkdirPartial"}
              \/ (pc[j] = "normalize" /\ ~opened)
           THEN "expired" ELSE "deleted"
      [] upload[j] = "unlinking" -> "unlinkingDeleted"
      [] OTHER -> "gone"

\* The interval timer runs cleanupOldFiles: `gone` are the files found older
\* than the TTL whose unlinkSync did not throw; a failure of statSync or
\* unlinkSync leaves the file and is ignored.  opened: a normalizing ffmpeg
\* has its input open already.
CleanupOldFiles(gone, opened) ==
    /\ gone # {}
    /\ gone \subseteq OnDisk
    /\ ~opened => \E j \in AllIds :
                     /\ UploadFile(j) \in gone
                     /\ upload[j] = "present"
                     /\ pc[j] = "normalize"
    /\ upload' = [j \in AllIds |->
                    IF UploadFile(j) \in gone THEN Unlinked(j, opened)
                    ELSE upload[j]]
    /\ outputs' = [j \in AllIds |->
                     IF OutputFile(j) \in gone THEN <<>> ELSE outputs[j]]
    /\ UNCHANGED << env, unitVars, reqVars, jobs, pc, ws, tally, poolVars,
                    logVars, chunksDir, snapVars >>

\* Variant of GetStatus: a terminal record is dropped from the registry once
\* it has been served.
GetStatusEvicts(j) ==
    /\ j \in env.asks
    /\ IF j \in Registered
       THEN /\ getRes' = [getRes EXCEPT ![j] = << Response(200, jobs[j]) >>]
            /\ lastSnap' = [lastSnap EXCEPT ![j] = << jobs[j] >>]
            /\ jobs' = IF jobs[j].status \in Terminal
                       THEN [x \in Registered \ {j} |-> jobs[x]]
                       ELSE jobs
       ELSE /\ getRes' = [getRes EXCEPT ![j] = << NotFound >>]
            /\ UNCHANGED << lastSnap, jobs >>
    /\ UNCHANGED << env, unitVars, reqVars, pc, ws, upload, tally, poolVars, logVars,
                    chunksDir, outputs >>

\* GET /transcribe/:id: 404 for an id the registry does not hold, otherwise
\* the record serialized as it is
GetStatus(j) ==
    /\ j \in env.asks
    /\ IF j \in Registered
       THEN /\ getRes' = [getRes EXCEPT ![j] = << Response(200, jobs[j]) >>]
            /\ lastSnap' = [lastSnap EXCEPT ![j] = << jobs[j] >>]
       ELSE /\ getRes' = [getRes EXCEPT ![j] = << NotFound >>]
            /\ UNCHANGED lastSnap
    /\ UNCHANGED << env, unitVars, reqVars, jobs, pc, ws, upload, tally, poolVars, logVars,
                    chunksDir, outputs >>

\* Everything the environment owes job j: a started fs call settles and a
\* spawned child process ends.  Each of these stays enabled until it happens.
Settles(j) ==
    \/ \E ok \in BOOLEAN : MkdtempDone(j, ok)
    \/ \E ok \in BOOLEAN : MkdirChunksDone(j, ok)
    \/ \E ok, spawned \in BOOLEAN : MkdirPartialDone(j, ok, spawned)
    \/ \E o \in Exits, spawned \in BOOLEAN : NormalizeExit(j, o, spawned)
    \/ \E o \in Exits, d \in DirChoices(env.maxN) : SegmentExit(j, o, d)
    \/ ReaddirDone(j)
    \/ \E w \in DOMAIN workers[j], o \in Exits :
         \E f \in (IF o = "exit0" THEN FileChoices ELSE { <<>> }) :
            \E wr, spawned \in BOOLEAN : ChunkExit(j, w, o, f, wr, spawned)
    \/ \E ok \in BOOLEAN : RmDone(j, ok)
    \/ \E ok \in BOOLEAN : UnlinkDone(j, ok)

Next ==
    \/ \E j \in AllIds :
          \/ Submit(j)
          \/ Settles(j)
    \/ \E j \in AllIds : GetStatus(j)
    \/ \E gone \in SUBSET OnDisk, opened \in BOOLEAN :
          CleanupOldFiles(gone, opened)

Spec == Init /\ [][Next]_vars

\* One job, submitted with any fullAudio field, while clients also ask for
\* an identifier that is never issued.
InitApi == InitEnv({1}, MaxChunksApi, Bodies, AllIds)

ApiSpec == InitApi /\ [][Next]_vars

\* Two jobs side by side on a two-core machine with the recognizer
\* installed.  No status is asked for (GET /transcribe/:id writes nothing
\* that a job owns) and the timer of cleanupOldFiles does not fire.
InitTwo ==
    /\ InitEnv(AllIds, MaxChunksTwo, { FormField("false") }, {})
    /\ env.cpuCores = 2
    /\ env.whisperInstalled

NextTwo ==
    \E j \in AllIds :
       \/ Submit(j)
       \/ Settles(j)

TwoJobSpec == InitTwo /\ [][NextTwo]_vars

\* ------------------------------------------------------------ runCommand alone
\* The child of one runCommand call delivers one more event, 'close' at most
\* once; the handler registered for it runs.
ChildEvent(ev) ==
    /\ Len(run.evs) < MaxEvents
    /\ ev.type = "close" =>
         \A i \in DOMAIN run.evs : run.evs[i].type # "close"
    /\ run' = [p |-> OnEvent(run.p, ev, "Erro ao normalizar audio com ffmpeg", 0),
               evs |-> Append(run.evs, ev)]
    /\ UNCHANGED << env, jobs, reqVars, pc, ws, upload, tally, poolVars,
                    logVars, chunksDir, outputs, snapVars, calc, app >>

NextRunner == \E ev \in ChildEvents : ChildEvent(ev)

RunnerSpec == Init /\ [][NextRunner]_vars

\* ------------------------------------------------------------ the pool alone
\* transcribe reaches the pool with n chunks on a machine of cpuCores cores:
\* concurrency and threadsPerProcess are computed and every worker shifts
\* its first index; the workers whose spawn fails (lost of them) are
\* rejected before the turn is over.
SetUpPool(n, cpuCores, lost) ==
    /\ calc = NoPool
    /\ LET c == Concurrency(n, cpuCores)
       IN /\ lost <= Min(c, n)
          /\ calc' = [n |-> n, cpuCores |-> cpuCores, concurrency |-> c,
                      threadsPerProcess |-> ThreadsPerProcess(cpuCores, c),
                      queue |-> n - Min(c, n), running |-> Min(c, n) - lost,
                      completedChunks |-> 0, reported |-> <<>>]
    /\ UNCHANGED << env, jobs, reqVars, pc, ws, upload, tally, poolVars,
                    logVars, chunksDir, outputs, snapVars, run, app >>

\* The recognizer of one worker exits with code 0: the worker counts the
\* chunk, reports the progress and shifts its next index, or returns when
\* the queue is empty.  When the spawn for the next index fails (~spawned)
\* the worker is rejected in this same turn.
ChunkDone(spawned) ==
    /\ calc.running > 0
    /\ calc.queue = 0 => spawned
    /\ LET k == calc.completedChunks + 1
       IN calc' = [calc EXCEPT
                     !.completedChunks = k,
                     !.reported = Append(@, ChunkProgress(k, calc.n)),
                     !.queue = IF @ > 0 THEN @ - 1 ELSE @,
                     !.running = IF calc.queue > 0 /\ spawned THEN @ ELSE @ - 1]
    /\ UNCHANGED << env, jobs, reqVars, pc, ws, upload, tally, poolVars,
                    logVars, chunksDir, outputs, snapVars, run, app >>

\* The recognizer of one worker fails, or readFileSync throws on its part:
\* the worker rejects, so it counts nothing, reports nothing and shifts no
\* further index; the other workers go on.
ChunkFails ==
    /\ calc.running > 0
    /\ calc' = [calc EXCEPT !.running = @ - 1]
    /\ UNCHANGED << env, jobs, reqVars, pc, ws, upload, tally, poolVars,
                    logVars, chunksDir, outputs, snapVars, run, app >>

NextPool ==
    \/ \E n \in 1..MaxPoolChunks, c \in 0..MaxCores :
          \E lost \in 0..Concurrency(n, c) : SetUpPool(n, c, lost)
    \/ \E spawned \in BOOLEAN : ChunkDone(spawned)
    \/ ChunkFails

PoolSpec == Init /\ [][NextPool]_vars

InitLive == InitWith({1}, MaxChunksLive)

\* The same program under the assumption that every spawned process ends and
\* every fs call settles.
FairSpec == InitLive /\ [][Next]_vars /\ \A j \in AllIds : WF_vars(Settles(j))


\* ============================================================ claims
Range(f) == { f[i] : i \in DOMAIN f }

WhisperExits(j) == { e \in Range(exitLog[j]) : e.step = "whisper" }

\* the trimmed text of each chunk's output file, "" for a chunk without one
TrimmedOutputs(j) ==
    [i \in 1..Len(chunks[j]) |->
       IF partTxt[j][i] # <<>> THEN Trim(partTxt[j][i][1]) ELSE <<>>]

\* C1: whenever a job is completed, its transcript is the newline-join, in
\* index order, of the trimmed texts the recognizer wrote for chunk 0..N-1
\* (N >= 1), whatever the order in which the recognizer processes ended.
C1_OrderedAssembly ==
    \A j \in Registered :
        jobs[j].status = "completed" =>
            /\ Len(chunks[j]) >= 1
            /\ jobs[j].transcription = JoinNL(TrimmedOutputs(j))

\* a job completed with three chunks, the second chunk's recognizer having
\* ended first and the texts of chunk 0 and chunk 1 being different
C1_Witness ==
    /\ 1 \in Registered
    /\ jobs[1].status = "completed"
    /\ Len(chunks[1]) = 3
    /\ \E i \in DOMAIN exitLog[1] :
         /\ exitLog[1][i].step = "whisper" /\ exitLog[1][i].idx = 1
         /\ \A k \in 1..(i - 1) : exitLog[1][k].step # "whisper"
    /\ TrimmedOutputs(1)[1] # TrimmedOutputs(1)[2]
    /\ \A i \in 1..3 : partTxt[1][i] # <<>>

\* C2: a registered job stays registered; its status changes only along
\* queued -> processing, processing -> completed and processing -> failed, so
\* a terminal status never changes again; a job enters the registry as queued
\* or processing.
C2_StatusTransitions ==
    [][ /\ Registered \subseteq DOMAIN jobs'
        /\ \A j \in DOMAIN jobs' :
             IF j \in Registered
             THEN \/ jobs'[j].status = jobs[j].status
                  \/ << jobs[j].status, jobs'[j].status >> \in
                       { << "queued", "processing" >>,
                         << "processing", "completed" >>,
                         << "processing", "failed" >> }
             ELSE jobs'[j].status \in {"queued", "processing"} ]_vars

\* a failed job whose record was written again afterwards (a worker that was
\* still running reported progress), and that a status query has read
C2_Witness ==
    /\ 1 \in Registered
    /\ jobs[1].status = "failed"
    /\ jobs[1].stage[1] = "Transcrevendo"
    /\ lastSnap[1] = << jobs[1] >>

\* C3: a later snapshot of a job never reports a lower progress than the
\* snapshot before it.
C3_SnapshotsMonotone ==
    [][ \A j \in AllIds :
          (lastSnap[j] # <<>> /\ lastSnap'[j] # <<>>) =>
              lastSnap'[j][1].progress >= lastSnap[j][1].progress ]_vars

\* C4: a job record shows progress 100 exactly when its status is terminal.
C4_HundredIffTerminal ==
    \A j \in Registered :
        (jobs[j].progress = 100) <=> (jobs[j].status \in Terminal)

\* C5: once any recognizer process of a job ended otherwise than with exit
\* code 0, the job is failed: it is not completed, carries an error and no
\* transcript, and no transcript file was written.
C5_ChunkFailureFailsJob ==
    \A j \in Registered :
        (\E e \in WhisperExits(j) : ~e.ok) =>
            /\ jobs[j].status = "failed"
            /\ "error" \in DOMAIN jobs[j]
            /\ "transcription" \notin DOMAIN jobs[j]
            /\ outputs[j] = <<>>

\* a failed job of three chunks: one recognizer succeeded, then one failed,
\* then another one succeeded
C5_Witness ==
    /\ 1 \in Registered
    /\ jobs[1].status = "failed"
    /\ Len(exitLog[1]) = 5
    /\ exitLog[1][3].ok /\ ~exitLog[1][4].ok /\ exitLog[1][5].ok

\* C6: the scratch directory of a job whose status is terminal does not exist.
C6_TerminalMeansRemoved ==
    \A j \in Registered :
        jobs[j].status \in Terminal => ws[j] \in {"absent", "removed"}

\* C7: every registered job eventually has a terminal status.
C7_EveryJobTerminates ==
    \A j \in AllIds : (j \in Registered) ~> IsTerminal(j)

\* a job that became terminal after both of its recognizers ended
C7_Witness ==
    /\ IsTerminal(1)
    /\ Cardinality(WhisperExits(1)) = 2

\* C8: on a machine where the recognizer cannot be spawned, a registered job
\* has had its id sent back and is never completed; in every state in which
\* the spawn of a recognizer has been attempted the job is failed, its error
\* is the spawn error of block 1, every worker is rejected and every
\* attempted spawn has ended, so the job is never seen processing with its
\* recognizers started; and every registered job is eventually failed.
C8_MissingBinaryFails ==
    /\ [](\A j \in Registered :
            ~env.whisperInstalled =>
               /\ j \in acked
               /\ jobs[j].status # "completed"
               /\ (\E e \in Range(spawnLog[j]) : e.step = "whisper") =>
                      /\ jobs[j].status = "failed"
                      /\ jobs[j].error = Msg("Erro no bloco", 1, "spawn", "ENOENT")
                      /\ pc[j] = "settled"
                      /\ Len(exitLog[j]) = Len(spawnLog[j])
                      /\ \A w \in DOMAIN workers[j] :
                            workers[j][w].st = "rejected")
    /\ \A j \in AllIds :
         (j \in Registered /\ ~env.whisperInstalled) ~>
            (j \in Registered /\ jobs[j].status = "failed")

\* the recognizer is missing, both workers of a two-chunk job were rejected
\* at their spawn and the job failed with the spawn error of block 1
C8_Witness ==
    /\ ~env.whisperInstalled
    /\ 1 \in Registered
    /\ 1 \in acked
    /\ jobs[1].status = "failed"
    /\ jobs[1].error = Msg("Erro no bloco", 1, "spawn", "ENOENT")
    /\ Len(workers[1]) = 2
    /\ \A w \in DOMAIN workers[1] : workers[1][w].st = "rejected"
    /\ exitLog[1][Len(exitLog[1])] = Ended("whisper", 1, "enoent")

\* C9: a job in which a recognizer exited with code 0 without leaving its
\* output file is not completed.
C9_MissingOutputFails ==
    \A j \in Registered :
        (\E e \in WhisperExits(j) : e.ok /\ partTxt[j][e.idx + 1] = <<>>) =>
            jobs[j].status # "completed"

\* C10: when the segment step exited with code 0 and left no .wav file, no
\* recognizer is ever spawned and the job is not completed; and once
\* readdir has listed the directory the job is failed with the no-chunks
\* error, in the step in which the listing settled.
C10_NoChunksFails ==
    \A j \in Registered :
        ( /\ \E e \in Range(exitLog[j]) : e.step = "segment" /\ e.ok
          /\ \A f \in chunksDir[j] : f.ext # "wav" ) =>
            /\ \A e \in Range(spawnLog[j]) : e.step # "whisper"
            /\ jobs[j].status # "completed"
            /\ listed[j] = "ok" =>
                 /\ pc[j] = "settled"
                 /\ jobs[j].status = "failed"
                 /\ jobs[j].error = NoChunksMsg

\* segmentation left only a file that is no .wav and the job failed with the
\* no-chunks error
C10_Witness ==
    /\ 1 \in Registered
    /\ chunksDir[1] = { Entry(0, "tmp") }
    /\ listed[1] = "ok"
    /\ jobs[1].status = "failed"
    /\ jobs[1].error = NoChunksMsg

\* C11: the 202 answer carrying the job id is sent in the step that registers
\* the job, before any fs call of the pipeline settled and before any process
\* was spawned; anything the pipeline did implies the answer was sent, and a
\* status query made once the answer was sent finds the job.
C11_AckBeforePipeline ==
    /\ [](\A j \in AllIds :
            /\ j \in acked => /\ j \in Registered
                              /\ postRes[j] = << Accepted(j) >>
                              /\ postRes[j][1].body.id = jobs[j].id
            /\ (pc[j] # "none" \/ ws[j] # "absent" \/
                spawnLog[j] # <<>> \/ exitLog[j] # <<>>) => j \in acked)
    /\ [][ \A j \in AllIds :
            /\ (j \notin acked /\ j \in acked') =>
                  /\ j \notin Registered
                  /\ spawnLog'[j] = <<>> /\ exitLog'[j] = <<>>
                  /\ ws'[j] = "absent"
            /\ (j \in acked /\ GetStatus(j)) =>
                  /\ getRes'[j][1].code = 200
                  /\ getRes'[j][1].body.id = j ]_vars

\* a job whose normalize step is running and whose status was queried after
\* the 202 answer
C11_Witness ==
    /\ 1 \in acked
    /\ pc[1] = "normalize"
    /\ getRes[1] # <<>>
    /\ getRes[1][1].code = 200

\* C12: a status query is answered 404 exactly when its id was not sent back
\* by an earlier submit, and otherwise 200 with the record of that id as it
\* is; the registry never loses a record, and a status query changes neither
\* the registry nor any record.
C12_NotFoundIffNeverIssued ==
    /\ [](acked = Registered)
    /\ [][ /\ Registered \subseteq DOMAIN jobs'
           /\ \A j \in AllIds :
                GetStatus(j) =>
                  /\ jobs' = jobs
                  /\ (getRes'[j][1] = NotFound) <=> (j \notin acked)
                  /\ (j \in acked) =>
                       getRes'[j][1] = Response(200, jobs[j]) ]_vars

\* the never issued id 2 was answered 404 while the terminal job 1 was
\* answered with its record
C12_Witness ==
    /\ getRes[2] = << NotFound >>
    /\ 2 \notin acked
    /\ IsTerminal(1)
    /\ getRes[1] = << Response(200, jobs[1]) >>

\* what C13 asks of one record or snapshot
ConsistentFields(rec) ==
    /\ ("transcription" \in DOMAIN rec) <=> (rec.status = "completed")
    /\ ("error" \in DOMAIN rec) <=> (rec.status = "failed")
    /\ rec.status = "completed" =>
         /\ rec.progress = 100
         /\ "completedAt" \in DOMAIN rec
         /\ "downloadUrl" \in DOMAIN rec
         /\ rec.downloadUrl = << "/downloads/", rec.id, ".txt" >>

\* C13: in every record a status query can read and in every snapshot one
\* has read, the transcript is present iff the status is completed and the
\* error iff it is failed, and a completed one has progress 100, a
\* completion timestamp and the download reference.
C13_SnapshotFieldsConsistent ==
    \A j \in AllIds :
        /\ j \in Registered => ConsistentFields(jobs[j])
        /\ lastSnap[j] # <<>> => ConsistentFields(lastSnap[j][1])
        /\ (getRes[j] # <<>> /\ getRes[j][1].code = 200) =>
              ConsistentFields(getRes[j][1].body)

\* a completed job of two chunks whose snapshot was read
C13_Witness ==
    /\ lastSnap[1] # <<>>
    /\ lastSnap[1][1].status = "completed"
    /\ "transcription" \in DOMAIN lastSnap[1][1]
    /\ Len(chunks[1]) = 2

\* C14: every snapshot a status query returned with status failed shows the
\* stage "Falha" and carries the error.
C14_FailedShowsFalha ==
    \A j \in AllIds :
        (lastSnap[j] # <<>> /\ lastSnap[j][1].status = "failed") =>
            /\ lastSnap[j][1].stage = Stage("Falha")
            /\ "error" \in DOMAIN lastSnap[j][1]

\* C15 as stated: whenever a job is completed, the file
\* <outputsDir>/<id>.txt exists and holds the transcript stored on the record.
C15_ArtifactMatchesTranscript ==
    \A j \in Registered :
        jobs[j].status = "completed" =>
            outputs[j] = << jobs[j].transcription >>

\* C15 as amended: in the step that completes a job the file
\* <outputsDir>/<id>.txt holds the transcript stored on the record; from then
\* on it holds that transcript or has been deleted by cleanupOldFiles, and
\* it changes in no other way.
C15_ArtifactUntilCleanup ==
    /\ [](\A j \in Registered :
            jobs[j].status = "completed" =>
                outputs[j] \in { << jobs[j].transcription >>, <<>> })
    /\ [][ \A j \in AllIds :
             /\ (~IsTerminal(j) /\ j \in Registered'
                   /\ jobs'[j].status = "completed") =>
                     outputs'[j] = << jobs'[j].transcription >>
             /\ (j \in Registered /\ jobs[j].status = "completed"
                   /\ outputs'[j] # outputs[j]) =>
                     /\ outputs'[j] = <<>>
                     /\ jobs'[j] = jobs[j] ]_vars

\* a completed job of two chunks whose transcript, not empty, is still on
\* the record and in the last snapshot with its download reference, while
\* the file has been deleted
C15_Witness ==
    /\ 1 \in Registered
    /\ jobs[1].status = "completed"
    /\ Len(chunks[1]) = 2
    /\ jobs[1].transcription # <<>>
    /\ outputs[1] = <<>>
    /\ lastSnap[1] = << jobs[1] >>
    /\ "downloadUrl" \in DOMAIN jobs[1]

\* ffmpeg cuts its output at a duration given with -t
HasCap(args) == \E i \in DOMAIN args : args[i] = "-t"

\* C16: the normalize ffmpeg of a job is given a duration cap exactly when
\* the job was submitted with the full-audio flag unset.
C16_FlagDecidesCap ==
    \A j \in AllIds :
        \A e \in Range(spawnLog[j]) :
            e.step = "normalize" =>
                (HasCap(e.args) <=> ~request[j][1].fullAudio)

\* C17: the POST of a job whose recognizer failed was answered with code
\* 500, and the POST of a completed job was answered with the transcription
\* and the downloadUrl.
C17_PostAnswersResult ==
    \A j \in Registered :
        /\ (jobs[j].status = "failed" /\ \E e \in WhisperExits(j) : ~e.ok) =>
              /\ postRes[j] # <<>>
              /\ postRes[j][1].code = 500
        /\ jobs[j].status = "completed" =>
              /\ postRes[j] # <<>>
              /\ "transcription" \in DOMAIN postRes[j][1].body
              /\ "downloadUrl" \in DOMAIN postRes[j][1].body

\* C18: in the step in which the pool's outcome is reported (transcribe
\* returns or throws out of the worker pool), no worker of the job is left
\* awaiting a recognizer.
C18_PoolDoneMeansWorkersDone ==
    [][ \A j \in AllIds :
          (pc[j] = "pool" /\ pc'[j] = "settled") =>
              \A w \in DOMAIN workers'[j] : workers'[j][w].st # "run" ]_vars

\* the entries of a process log that belong to recognizers
WhisperAt(log) == { i \in DOMAIN log : log[i].step = "whisper" }

NoIndexTwice(log) ==
    \A a, b \in WhisperAt(log) : a # b => log[a].idx # log[b].idx

\* C19: no chunk index is handed to a recognizer twice and no recognizer
\* ends twice, so no slot is written twice; every recognizer that ended had
\* been spawned; in a completed job the recognizers that ended are exactly
\* one per index 0..N-1, each with exit code 0.
C19_EachIndexOnce ==
    \A j \in AllIds :
        /\ NoIndexTwice(spawnLog[j])
        /\ NoIndexTwice(exitLog[j])
        /\ \A i \in WhisperAt(exitLog[j]) :
             \E k \in WhisperAt(spawnLog[j]) :
                spawnLog[j][k].idx = exitLog[j][i].idx
        /\ (j \in Registered /\ jobs[j].status = "completed") =>
             /\ { exitLog[j][i].idx : i \in WhisperAt(exitLog[j]) } =
                  0..(Len(chunks[j]) - 1)
             /\ Cardinality(WhisperAt(exitLog[j])) = Len(chunks[j])
             /\ \A i \in WhisperAt(exitLog[j]) : exitLog[j][i].ok

\* a job of three chunks completed by two workers
C19_Witness ==
    /\ 1 \in Registered
    /\ jobs[1].status = "completed"
    /\ Len(chunks[1]) = 3
    /\ Len(workers[1]) = 2

\* the recognizers of job j that were spawned and have not ended
InFlight(j) ==
    Cardinality(WhisperAt(spawnLog[j])) - Cardinality(WhisperAt(exitLog[j]))

\* C20: the recognizers of a job in flight are never more than
\* min(N, max(1, floor(cpuCores / 4))), N being the job's chunk count.
C20_InFlightBounded ==
    \A j \in AllIds :
        LET N == Len(chunks[j])
            quarter == env.cpuCores \div 4
            atLeastOne == IF quarter >= 1 THEN quarter ELSE 1
            W == IF N <= atLeastOne THEN N ELSE atLeastOne
        IN /\ InFlight(j) >= 0
           /\ InFlight(j) <= W

\* two recognizers in flight for a job of three chunks on eight cores
C20_Witness ==
    /\ env.cpuCores = 8
    /\ Len(chunks[1]) = 3
    /\ InFlight(1) = 2

\* C21: the segment ffmpeg is spawned only after the normalize ffmpeg exited
\* with code 0, the chunk directory is read only after the segment ffmpeg
\* exited with code 0, and a recognizer is spawned only after that reading
\* gave at least one chunk; after a normalize or segment process ended
\* otherwise, no later step is started.  The processes are spawned in the
\* order normalize, segment, recognizers.
C21_StepsOrdered ==
    \A j \in AllIds :
        LET spawned(s) == \E e \in Range(spawnLog[j]) : e.step = s
            exitedOk(s) == \E e \in Range(exitLog[j]) : e.step = s /\ e.ok
            exitedBad(s) == \E e \in Range(exitLog[j]) : e.step = s /\ ~e.ok
            rank(s) == CASE s = "normalize" -> 1 [] s = "segment" -> 2
                         [] OTHER -> 3
        IN /\ spawned("segment") => exitedOk("normalize")
           /\ (pc[j] = "readdir" \/ chunks[j] # <<>>) => exitedOk("segment")
           /\ spawned("whisper") =>
                /\ exitedOk("segment")
                /\ Len(chunks[j]) >= 1
           /\ exitedBad("normalize") =>
                /\ ~spawned("segment") /\ ~spawned("whisper")
                /\ pc[j] # "readdir" /\ chunks[j] = <<>>
           /\ exitedBad("segment") =>
                /\ ~spawned("whisper")
                /\ pc[j] # "readdir" /\ chunks[j] = <<>>
           /\ \A a, b \in DOMAIN spawnLog[j] :
                a < b => rank(spawnLog[j][a].step) <= rank(spawnLog[j][b].step)
           /\ Cardinality({ i \in DOMAIN spawnLog[j] :
                              spawnLog[j][i].step # "whisper" }) <= 2

\* a job whose recognizers run on two chunks
C21_Witness ==
    /\ pc[1] = "pool"
    /\ Len(chunks[1]) = 2
    /\ \E e \in Range(spawnLog[1]) : e.step = "whisper"

\* everything the program holds on behalf of job k besides its record
PerJob(k) ==
    << pc[k], ws[k], upload[k], chunks[k], queue[k], parts[k],
       completedChunks[k], workers[k], chunksDir[k], partTxt[k], listed[k],
       exitLog[k], outputs[k], spawnLog[k], tally[k], postRes[k], request[k] >>

\* the record of job k, if it is registered
Record(k) == IF k \in Registered THEN << jobs[k] >> ELSE <<>>

\* C22: a step that writes the record of one job, or anything else held on
\* behalf of that job, leaves the record and everything held on behalf of
\* every other job unchanged: a progress callback, a completed transition
\* and a failed transition of job A never touch job B.
C22_JobsIndependent ==
    [][ \A j, k \in AllIds :
          (j # k /\ (PerJob(j)' # PerJob(j) \/ Record(j)' # Record(j))) =>
              (PerJob(k)' = PerJob(k) /\ Record(k)' = Record(k)) ]_vars

\* job 1 failed because its recognizer did, and job 2 completed
C22_Witness ==
    /\ Registered = {1, 2}
    /\ jobs[1].status = "failed"
    /\ \E e \in WhisperExits(1) : ~e.ok
    /\ jobs[2].status = "completed"

\* C23: the step in which the removal of the scratch directory or the unlink
\* of the upload settles, successfully or not, changes no job record, no
\* transcript file and takes no terminal transition; the record of a
\* completed job never changes again, so it is never turned into failed.
C23_CleanupNeverChangesOutcome ==
    [][ \A j \in AllIds :
          /\ ( \/ (ws[j] = "removing" /\ ws'[j] \in {"removed", "leftover"})
               \/ (upload[j] \in {"unlinking", "unlinkingDeleted"} /\
                   upload'[j] \in {"gone", "leftover"}) ) =>
                (jobs' = jobs /\ outputs' = outputs /\ tally' = tally)
          /\ (j \in Registered /\ jobs[j].status = "completed") =>
                jobs'[j] = jobs[j] ]_vars

\* a completed job whose scratch directory and upload could both not be
\* deleted
C23_Witness ==
    /\ 1 \in Registered
    /\ jobs[1].status = "completed"
    /\ "transcription" \in DOMAIN jobs[1]
    /\ ws[1] = "leftover"
    /\ upload[1] = "leftover"

\* C24 as stated: once a job is terminal, the removal of its scratch
\* directory and the unlink of its upload have each been started exactly
\* once, whatever the path that led there; neither is ever started twice, and
\* the unlink is started only for a terminal job.
C24_CleanupExactlyOnce ==
    \A j \in AllIds :
        /\ tally[j].rm <= 1
        /\ tally[j].unlink <= 1
        /\ tally[j].unlink >= 1 => IsTerminal(j)
        /\ IsTerminal(j) => (tally[j].rm = 1 /\ tally[j].unlink = 1)

\* C24 as amended: the same for the deletions the background task of the
\* job starts, except that no removal is started for a job whose scratch
\* directory could not be created (mkdtemp failed), and that the removal too
\* is started only for a job that is terminal by the end of the same step.
\* cleanupOldFiles, which may delete the upload besides and at any time, is
\* not counted.
C24_CleanupOnceIfCreated ==
    \A j \in AllIds :
        /\ tally[j].rm <= 1
        /\ tally[j].unlink <= 1
        /\ (tally[j].unlink >= 1 \/ tally[j].rm >= 1) => IsTerminal(j)
        /\ IsTerminal(j) =>
             /\ tally[j].unlink = 1
             /\ tally[j].rm = (IF ws[j] = "absent" THEN 0 ELSE 1)
             /\ ws[j] = "absent" => jobs[j].error = FsError("mkdtemp")
             /\ upload[j] \in {"unlinking", "unlinkingDeleted", "gone",
                               "leftover"}
             /\ ws[j] \in {"absent", "removing", "removed", "leftover"}

\* a job that failed because a recognizer did, with one removal and one
\* unlink started
C24_Witness ==
    /\ 1 \in Registered
    /\ jobs[1].status = "failed"
    /\ \E e \in WhisperExits(1) : ~e.ok
    /\ tally[1].rm = 1
    /\ tally[1].unlink = 1

\* C25: the promise of a runCommand call is pending until the first event;
\* from then on it is resolved if that event is a close with code 0 and
\* rejected, with the message of that event, if it is an error or a close
\* with any other code or with none; it is resolved exactly when a close with
\* code 0 was delivered with no error before it; once settled it never
\* changes, whatever is delivered afterwards.
C25_RunnerSettlesOnce ==
    /\ [](LET evs == run.evs
              first == evs[1]
              prefix == "Erro ao normalizar audio com ffmpeg"
          IN IF evs = <<>> THEN run.p = Pending
             ELSE /\ run.p.state \in {"resolved", "rejected"}
                  /\ (run.p.state = "resolved") <=>
                       (first.type = "close" /\ first.code = "0")
                  /\ (run.p.state = "resolved") <=>
                       \E i \in DOMAIN evs :
                          /\ evs[i].type = "close" /\ evs[i].code = "0"
                          /\ \A k \in 1..(i - 1) : evs[k].type # "error"
                  /\ (first.type = "error") =>
                       run.p = [state |-> "rejected",
                                err |-> Msg(prefix, 0, "spawn", first.code)]
                  /\ (first.type = "close" /\ first.code # "0") =>
                       run.p = [state |-> "rejected",
                                err |-> Msg(prefix, 0, "exit", first.code)])
    /\ [][ run.p.state # "pending" => run'.p = run.p ]_vars

\* a close with code 0 was delivered first and an error after it, and the
\* promise is resolved
C25_Witness ==
    /\ Len(run.evs) = 2
    /\ run.evs[1] = [type |-> "close", code |-> "0"]
    /\ run.evs[2].type = "error"
    /\ run.p.state = "resolved"

\* C26: in a pool of N chunks the counter equals the number of progress
\* reports made, and counter, recognizers in flight and queue add up to at
\* most N; the k-th report is 25 + round(65 * k / N), halves rounded up; the
\* reports never decrease, lie in 25..90 and below the 98 of "Finalizando",
\* and the N-th report is 90.  A step changes the counter of a pool only by
\* adding 1 to it, and makes one report with it.
C26_ChunkProgressExact ==
    /\ [](LET N == calc.n
              rep == calc.reported
          IN /\ calc.completedChunks = Len(rep)
             /\ calc.completedChunks + calc.running + calc.queue <= N
             /\ Len(rep) <= N
             /\ \A k \in DOMAIN rep :
                  /\ 2 * N * (rep[k] - 25) <= 130 * k + N
                  /\ 130 * k + N < 2 * N * (rep[k] - 25) + 2 * N
                  /\ rep[k] >= 25 /\ rep[k] <= 90 /\ rep[k] < 98
                  /\ k > 1 => rep[k - 1] <= rep[k]
                  /\ k = N => rep[k] = 90)
    /\ [][ (calc # NoPool /\ calc'.completedChunks # calc.completedChunks) =>
             /\ calc'.completedChunks = calc.completedChunks + 1
             /\ Len(calc'.reported) = Len(calc.reported) + 1 ]_vars

\* a pool of eight chunks all done, and its reports
C26_Witness ==
    /\ calc.n = 8
    /\ calc.concurrency = 2
    /\ calc.completedChunks = 8
    /\ calc.reported = << 33, 41, 49, 58, 66, 74, 82, 90 >>

\* C27: in every pool the worker count is at least 1 and at most the chunk
\* count, and the thread count given to each recognizer is
\* max(4, floor(cpuCores / W)), so at least 2.
C27_WorkersAndThreads ==
    calc # NoPool =>
        /\ calc.concurrency >= 1
        /\ calc.concurrency <= calc.n
        /\ calc.threadsPerProcess >= 2
        /\ calc.threadsPerProcess >= 4
        /\ calc.threadsPerProcess >= calc.cpuCores \div calc.concurrency
        /\ \/ calc.threadsPerProcess = 4
           \/ calc.threadsPerProcess = calc.cpuCores \div calc.concurrency

\* a pool on a machine that reports no CPU at all
C27_Witness ==
    /\ calc # NoPool
    /\ calc.cpuCores = 0
    /\ calc.concurrency = 1
    /\ calc.threadsPerProcess = 4

\* C28: in a step taken while a job is terminal, no recognizer of that job
\* is spawned and the progress and the stage of its record are not written.
C28_NothingAfterTerminal ==
    [][ \A j \in AllIds :
          IsTerminal(j) =>
              /\ spawnLog'[j] = spawnLog[j]
              /\ jobs'[j].progress = jobs[j].progress
              /\ jobs'[j].stage = jobs[j].stage ]_vars

\* C29: in the step that starts the removal of a job's scratch directory,
\* every process spawned for the job has ended and no worker of the job is
\* left awaiting a recognizer or about to shift another index.
C29_RemovalAfterProcesses ==
    [][ \A j \in AllIds :
          (ws[j] # "removing" /\ ws'[j] = "removing") =>
              /\ Len(spawnLog'[j]) = Len(exitLog'[j])
              /\ \A w \in DOMAIN workers'[j] : workers'[j][w].st # "run" ]_vars

\* the prefix runCommand is given for each step
ErrPrefix(step) ==
    CASE step = "normalize" -> "Erro ao normalizar audio com ffmpeg"
      [] step = "segment" -> "Erro ao segmentar audio com ffmpeg"
      [] OTHER -> "Erro no bloco"

\* the recognizer at position i of job j's exits ended with code 0 and
\* readFileSync threw on the part it left
ReadFailed(j, i) ==
    LET e == exitLog[j][i]
    IN /\ e.step = "whisper"
       /\ e.ok
       /\ partTxt[j] # <<>>
       /\ partTxt[j][e.idx + 1] = Unreadable

\* the positions of the processes of job j that did not exit with code 0,
\* or whose part could not be read
FailedAt(j) ==
    { i \in DOMAIN exitLog[j] : ~exitLog[j][i].ok \/ ReadFailed(j, i) }

\* C30: once a process of a job ended otherwise than with exit code 0, or
\* the part of a recognizer could not be read, the job is failed and its
\* error is the message of the first such failure (for a process the
\* step's prefix and, for a recognizer, the block number; for a part the
\* error of the read); a failed
\* job's status, error and completion timestamp never change again, and no
\* job takes more than one terminal transition.
C30_FirstFailureWins ==
    /\ [](\A j \in AllIds :
            /\ tally[j].terminal <= 1
            /\ FailedAt(j) # {} =>
                 LET i == CHOOSE a \in FailedAt(j) :
                             \A b \in FailedAt(j) : a <= b
                     e == exitLog[j][i]
                 IN /\ jobs[j].status = "failed"
                    /\ tally[j].terminal = 1
                    /\ IF ReadFailed(j, i)
                       THEN jobs[j].error = FsError("readFile")
                       ELSE /\ jobs[j].error.prefix = ErrPrefix(e.step)
                            /\ jobs[j].error.block =
                                 (IF e.step = "whisper" THEN e.idx + 1 ELSE 0)
                            /\ jobs[j].error.cause \in {"spawn", "exit"})
    /\ [][ \A j \in Registered :
             jobs[j].status = "failed" =>
                 /\ jobs'[j].status = "failed"
                 /\ jobs'[j].error = jobs[j].error
                 /\ jobs'[j].completedAt = jobs[j].completedAt
                 /\ tally'[j].terminal = tally[j].terminal ]_vars

\* the recognizer of chunk 1 failed, then the one of chunk 0 failed, and the
\* error names block 2
C30_Witness ==
    /\ 1 \in Registered
    /\ jobs[1].status = "failed"
    /\ Cardinality({ i \in FailedAt(1) : exitLog[1][i].step = "whisper" }) = 2
    /\ exitLog[1][Len(exitLog[1])].idx = 0
    /\ jobs[1].error.block = 2

\* C31: no record in the registry and no snapshot answered to a status
\* query has status queued; in the step that registers a job its record is
\* already processing with progress 5, stage "Iniciando" and a start
\* timestamp, and the background task is suspended at its first await.
C31_QueuedNeverObserved ==
    /\ [](/\ \A j \in Registered : jobs[j].status # "queued"
          /\ \A j \in AllIds :
                lastSnap[j] # <<>> => lastSnap[j][1].status # "queued"
          /\ \A j \in AllIds :
                (getRes[j] # <<>> /\ getRes[j][1].code = 200) =>
                    getRes[j][1].body.status # "queued")
    /\ [][ \A j \in AllIds :
             (j \notin Registered /\ j \in Registered') =>
                 /\ jobs'[j].status = "processing"
                 /\ jobs'[j].progress = 5
                 /\ jobs'[j].stage = Stage("Iniciando")
                 /\ "startedAt" \in DOMAIN jobs'[j]
                 /\ pc'[j] = "mkdtemp" ]_vars

\* a status query answered before the first fs call of the job settled
C31_Witness ==
    /\ 1 \in Registered
    /\ pc[1] = "mkdtemp"
    /\ getRes[1] = << Response(200, jobs[1]) >>
    /\ jobs[1].status = "processing"
    /\ jobs[1].progress = 5

\* C32: a failed job has no file <outputsDir>/<id>.txt.
C32_FailedHasNoArtifact ==
    \A j \in Registered :
        jobs[j].status = "failed" => outputs[j] = <<>>

\* ------------------------------------------------------------ the page alone
\* Bodies GET /transcribe/:id answers with status 200: the record as built,
\* as started, in the pool, completed (with and without text) and failed
\* (at once, by a recognizer, and with the progress of a later chunk).
StatusResponses ==
    LET queued == NewJob(1)
        started == StartJob(queued)
        inPool == OnProgress(started, StageChunks(1, 2), ChunkProgress(1, 2))
        failed == FailJob(inPool, Msg("Erro no bloco", 1, "exit", 1))
    IN { queued, started, inPool,
         FailJob(started, FsError("mkdtemp")), failed,
         OnProgress(failed, StageChunks(1, 2), ChunkProgress(1, 2)) }
       \cup { CompleteJob(OnProgress(inPool, Stage("Finalizando"), 98), t) :
                t \in { << "a" >>, NoText } }

\* Progress events of an upload: part of the body sent, the whole body
\* sent, a quotient ending in .5, and an event without `total`.
UploadEvents ==
    { [loaded |-> 37, total |-> << 100 >>],
      [loaded |-> 100, total |-> << 100 >>],
      [loaded |-> 1, total |-> << 8 >>],
      [loaded |-> 5000, total |-> <<>>] }

\* Answers of POST /api/refine: the refined text, an answer whose
\* refinedText is undefined, the 500 of a failed API call, and no answer.
RefineResponses ==
    { << Response(200, [refinedText |-> << "r" >>]) >>,
      << Response(200, [refinedText |-> NoText]) >>,
      << Response(500, [error |-> "Erro na API da Groq"]) >>,
      <<>> }

\* Answers of POST /api/summarize: a summary, an answer whose summary is
\* undefined, the 500 of a failed API call, and no answer.
SummarizeResponses ==
    { << Response(200, [summary |-> << "s" >>]) >>,
      << Response(200, [summary |-> NoText]) >>,
      << Response(500, [error |-> "Erro na API da Groq durante o resumo."]) >>,
      <<>> }

\* what the page's steps leave alone
serverVars == << env, jobs, reqVars, pc, ws, upload, tally, poolVars,
                 logVars, chunksDir, outputs, snapVars, run, calc >>

\* The file input changed; it is never disabled, so this runs at any
\* moment, also while onTranscribe, onRefine or onSummarize await.
OnFileChange(selected) ==
    /\ app' = FileChanged(app, selected)
    /\ UNCHANGED serverVars

\* The transcribe button is clicked; it is enabled when a file is chosen
\* and loading is false.  onTranscribe resets the display, posts the file
\* and returns to the event loop at the await of the POST.
OnTranscribe ==
    /\ app.file
    /\ ~app.loading
    /\ app' = BeginTranscribe(app)
    /\ UNCHANGED serverVars

\* one progress event of the upload while the POST is pending
OnUploadProgress(ev) ==
    /\ app.at = "posting"
    /\ app' = UploadProgress(app, ev)
    /\ UNCHANGED serverVars

\* The POST settled; `res` is the answer, <<>> when there is none.  With
\* the 202 answer the polling loop is entered and waits for its first
\* timer, otherwise the catch runs.
PostSettled(res) ==
    /\ app.at = "posting"
    /\ app' = (IF res = << Accepted(1) >> THEN [app EXCEPT !.at = "polling"]
               ELSE Caught(app, AxiosMessage(res)))
    /\ UNCHANGED serverVars

\* the timer of the loop fired and the GET was answered 200 with `data`
Poll(data) ==
    /\ app.at = "polling"
    /\ Len(app.seen) < MaxPolls
    /\ app' = PollOnce(app, data)
    /\ UNCHANGED serverVars

\* the timer of the loop fired and axios rejected the GET: 404 from a
\* registry that does not hold the id, or no answer
PollRejected(res) ==
    /\ app.at = "polling"
    /\ app' = Caught(app, AxiosMessage(res))
    /\ UNCHANGED serverVars

\* The refine button is clicked; it is rendered when a transcription is
\* shown and enabled when neither onRefine nor onSummarize awaits.
OnRefine ==
    /\ app.transcription # NoText
    /\ ~app.isRefining
    /\ ~app.isSummarizing
    /\ app' = [app EXCEPT !.isRefining = TRUE, !.error = <<>>]
    /\ UNCHANGED serverVars

\* the POST of onRefine settled
RefineSettled(res) ==
    /\ app.isRefining
    /\ app' = Refined(app, res)
    /\ UNCHANGED serverVars

\* The summary button is clicked; it is rendered when a transcription and
\* no summary are shown and enabled when onSummarize does not await.
OnSummarize ==
    /\ app.transcription # NoText
    /\ app.summary = NoText
    /\ ~app.isSummarizing
    /\ app' = [app EXCEPT !.isSummarizing = TRUE]
    /\ UNCHANGED serverVars

\* the POST of onSummarize settled
SummarizeSettled(res) ==
    /\ app.isSummarizing
    /\ app' = Summarized(app, res)
    /\ UNCHANGED serverVars

NextPage ==
    \/ \E selected \in BOOLEAN : OnFileChange(selected)
    \/ OnTranscribe
    \/ \E ev \in UploadEvents : OnUploadProgress(ev)
    \/ \E res \in { << Accepted(1) >>, <<>> } : PostSettled(res)
    \/ \E data \in StatusResponses : Poll(data)
    \/ \E res \in { << NotFound >>, <<>> } : PollRejected(res)
    \/ OnRefine
    \/ \E res \in RefineResponses : RefineSettled(res)
    \/ OnSummarize
    \/ \E res \in SummarizeResponses : SummarizeSettled(res)

PageSpec == Init /\ [][NextPage]_vars

InProgress(data) == data.status \in {"queued", "processing"}

\* what a snapshot carries in `field`, "" when it has none
TextOf(data, field) == IF field \in DOMAIN data THEN data[field] ELSE NoText

\* C33: the polling loop receives snapshots only while it polls, so every
\* snapshot before the last one reported queued or processing.  In the
\* step in which the loop receives a snapshot: if it reports queued or
\* processing the loop keeps polling and the transcript, the link and the
\* error stay as they were; if it reports completed the loop ends and the
\* page takes the snapshot's transcript and download link; if it reports
\* failed the loop ends, the error is the job's error, the progress is 0
\* and the transcript and the link stay as they were.
C33_PollsUntilTerminal ==
    /\ [](LET s == app.seen
              n == Len(s)
          IN /\ \A i \in 1..(n - 1) : InProgress(s[i])
             /\ app.at = "polling" => \A i \in 1..n : InProgress(s[i])
             /\ (n > 0 /\ s[n].status = "completed") => app.at = "done"
             /\ (n > 0 /\ s[n].status = "failed") => app.at = "caught")
    /\ [][ Len(app'.seen) = Len(app.seen) + 1 =>
             LET data == app'.seen[Len(app'.seen)]
             IN /\ app.at = "polling"
                /\ InProgress(data) =>
                     /\ app'.at = "polling"
                     /\ app'.loading
                     /\ app'.transcription = app.transcription
                     /\ app'.downloadUrl = app.downloadUrl
                     /\ app'.error = app.error
                /\ data.status = "completed" =>
                     /\ app'.at = "done"
                     /\ ~app'.loading
                     /\ app'.transcription = TextOf(data, "transcription")
                     /\ app'.downloadUrl = TextOf(data, "downloadUrl")
                     /\ app'.error = app.error
                /\ data.status = "failed" =>
                     /\ app'.at = "caught"
                     /\ ~app'.loading
                     /\ app'.error = << data.error >>
                     /\ app'.progress = 0
                     /\ app'.progressStage = Stage("")
                     /\ app'.transcription = app.transcription
                     /\ app'.downloadUrl = app.downloadUrl ]_vars

\* the loop went through a queued and a processing snapshot and ended at a
\* failed one: the page shows the job's error, progress 0 and no transcript
C33_Witness ==
    /\ Len(app.seen) = 3
    /\ app.seen[1].status = "queued"
    /\ app.seen[2].status = "processing"
    /\ app.seen[3].status = "failed"
    /\ app.at = "caught"
    /\ app.error = << app.seen[3].error >>
    /\ app.progress = 0
    /\ app.transcription = NoText
    /\ app.downloadUrl = NoText

=============================================================================
